---- MODULE Spec2Model ----
(***************************************************************************)
(* Code Doctor: the diagnosis request pipeline (services/geminiService.ts) *)
(* and the flashcard mastery engine with its review session (App.tsx,      *)
(* components/FlashcardReview.tsx), as one state machine.                   *)
(***************************************************************************)
EXTENDS Integers, Sequences, FiniteSets, TLC

(***************************************************************************)
(* Bounds of the model.                                                    *)
(***************************************************************************)
MaxCards == 2       \* cards the collection may hold
MaxClock == 2       \* distinct values Date.now() takes
MaxStreak == 3      \* cap on correctStreak
MaxIncorrect == 3   \* cap on incorrectCount
MaxHist == 4        \* answers remembered in a card's history

(***************************************************************************)
(* Program constants.                                                      *)
(***************************************************************************)
maxAttempts == 5
BackoffBase == 1000
MasteryThreshold == 3
CriticalThreshold == 3

\* JavaScript values, tagged by kind so that any two can be compared
Undefined == [kind |-> "undefined"]
Null == [kind |-> "null"]
Str(s) == [kind |-> "string", value |-> s]
Arr(s) == [kind |-> "array", items |-> s]

(***************************************************************************)
(* Strings are tuples of one-character strings.                            *)
(***************************************************************************)
Whitespace == {" ", "\t", "\n"}

RECURSIVE StripAll(_)
StripAll(s) ==
    IF s = << >> THEN << >>
    ELSE IF Head(s) \in Whitespace THEN StripAll(Tail(s))
         ELSE <<Head(s)>> \o StripAll(Tail(s))

RECURSIVE TrimLeft(_)
TrimLeft(s) ==
    IF s = << >> THEN << >>
    ELSE IF Head(s) \in Whitespace THEN TrimLeft(Tail(s)) ELSE s

RECURSIVE TrimRight(_)
TrimRight(s) ==
    IF s = << >> THEN << >>
    ELSE IF s[Len(s)] \in Whitespace THEN TrimRight(SubSeq(s, 1, Len(s) - 1)) ELSE s

trim(s) == TrimRight(TrimLeft(s))

\* normalize without the replace: only the ends are trimmed
normalizeTrimOnly(str) == trim(str)

\* FlashcardReview.handleCheck: str.replace(/\s+/g, '').trim()
normalize(str) == trim(StripAll(str))

(***************************************************************************)
(* What the generation collaborator can answer.                            *)
(***************************************************************************)
Draft1 == [concept |-> "A", backCode |-> <<"x", "=", "1">>]
Draft2 == [concept |-> "B", backCode |-> <<"x", " ", "=", " ", "2">>]

ObjectText(r, t, c) == [kind |-> "object", rawError |-> r, trace |-> t, cards |-> c]
EmptyText == [kind |-> "empty"]
GarbageText == [kind |-> "garbage"]
NullText == [kind |-> "null"]

ValidTexts ==
    { ObjectText(Str("E"), Arr(<< >>), c) :
        c \in {Undefined, Arr(<< >>), Arr(<<Draft1>>), Arr(<<Draft1, Draft2>>)} }

MisshapenTexts ==
    { ObjectText(Str(""), Arr(<< >>), Undefined),
      ObjectText(Undefined, Undefined, Arr(<<Draft1>>)),
      ObjectText(Str("E"), Undefined, Undefined),
      NullText }

Texts == {EmptyText, GarbageText} \cup MisshapenTexts \cup ValidTexts

\* generateContent either rejects or resolves with a response carrying a text
Responses == {[kind |-> "reject"]} \cup {[kind |-> "response", text |-> t] : t \in Texts}

SyntaxError == [kind |-> "SyntaxError"]

\* JSON.parse(response.text)
JSONParse(text) ==
    CASE text.kind = "garbage" -> SyntaxError
      [] text.kind = "empty" -> SyntaxError
      [] text.kind = "null" -> Null
      [] OTHER -> [kind |-> "object", rawError |-> text.rawError, trace |-> text.trace,
                   generatedFlashcards |-> text.cards]

\* !response.text
TextIsFalsy(text) == text.kind = "empty"

\* Backoff with the exponent off by one
BackoffDouble(n) == BackoffBase * 2^n

\* 1000 * Math.pow(2, attempts - 1), attempts already incremented
Backoff(n) == BackoffBase * 2^(n - 1)

TerminalError == "Failed to analyze code after multiple attempts. Please try again."
MissingKeyError == "API Key is missing in environment variables."
TypeErrorMsg == "Cannot read properties of null"

VARIABLES
    apiKey,         \* process.env.API_KEY is set
    now,            \* Date.now()
    phase,          \* "mounting", "loaded", "running"
    pending,        \* the setFlashcards(parsed) queued by the load effect
    store,          \* localStorage['code_doctor_flashcards']
    code,           \* App state: the editor's text
    diagnosisState, \* App state
    flashcards,     \* App state
    isReviewMode,   \* App state
    currentIndex,   \* FlashcardReview state
    userInput,      \* FlashcardReview state
    showResult,     \* FlashcardReview state
    purgeLog,       \* the counts clearMasteredCards logged in the last step, if it ran
    updateCall,     \* the handleUpdateCard call of the last step and how it ended, if any
    visitAnswers,   \* history: handleCheck calls for the card on screen since it came on screen
    anPc,           \* analyzeCode: "idle", "awaiting", "sleeping", "returned", "thrown"
    attempts,       \* analyzeCode: attempts
    calls,          \* generateContent calls made by the running analyzeCode
    sleeps,         \* delays slept by the running analyzeCode
    anResult,       \* what analyzeCode returned or threw
    firstUsable     \* the first call whose response was usable, 0 if none yet

appVars == <<phase, pending, store, code, diagnosisState, flashcards, isReviewMode,
             currentIndex, userInput, showResult>>
anVars == <<anPc, attempts, calls, sleeps, anResult, firstUsable>>
vars == <<apiKey, now, appVars, purgeLog, updateCall, visitAnswers, anVars>>

(***************************************************************************)
(* The flashcard engine (App.tsx).  A card's id `${Date.now()}-${index}`   *)
(* is the pair <<clock, index>>: the two decimal numbers joined by "-"     *)
(* determine the pair.  everMastered and hist are history fields: whether  *)
(* the card has ever had status mastered, and its first MaxHist answers.   *)
(***************************************************************************)
FreshStats == [correctStreak |-> 0, incorrectCount |-> 0, status |-> "new"]

Forgotten == <<"more">>

\* NewStats with a miss below the threshold sending the card back to new
NewStatsRevert(stats, isCorrect) ==
    IF isCorrect
    THEN LET streak == stats.correctStreak + 1
         IN [stats EXCEPT !.correctStreak = streak,
                          !.status = IF streak >= MasteryThreshold
                                     THEN "mastered" ELSE "learning"]
    ELSE LET missed == stats.incorrectCount + 1
         IN [stats EXCEPT !.correctStreak = 0,
                          !.incorrectCount = missed,
                          !.status = IF missed >= CriticalThreshold
                                     THEN "critical" ELSE "new"]

\* NewStats with mastery one correct answer late
NewStatsLateMastery(stats, isCorrect) ==
    IF isCorrect
    THEN LET streak == stats.correctStreak + 1
         IN [stats EXCEPT !.correctStreak = streak,
                          !.status = IF streak > MasteryThreshold
                                     THEN "mastered" ELSE "learning"]
    ELSE LET missed == stats.incorrectCount + 1
         IN [stats EXCEPT !.correctStreak = 0,
                          !.incorrectCount = missed,
                          !.status = IF missed >= CriticalThreshold
                                     THEN "critical" ELSE stats.status]

\* NewStats with critical one miss late
NewStatsLateCritical(stats, isCorrect) ==
    IF isCorrect
    THEN LET streak == stats.correctStreak + 1
         IN [stats EXCEPT !.correctStreak = streak,
                          !.status = IF streak >= MasteryThreshold
                                     THEN "mastered" ELSE "learning"]
    ELSE LET missed == stats.incorrectCount + 1
         IN [stats EXCEPT !.correctStreak = 0,
                          !.incorrectCount = missed,
                          !.status = IF missed > CriticalThreshold
                                     THEN "critical" ELSE stats.status]

\* handleUpdateCard, the body of the map callback for the matching card
NewStats(stats, isCorrect) ==
    IF isCorrect
    THEN LET streak == stats.correctStreak + 1
         IN [stats EXCEPT !.correctStreak = streak,
                          !.status = IF streak >= MasteryThreshold
                                     THEN "mastered" ELSE "learning"]
    ELSE LET missed == stats.incorrectCount + 1
         IN [stats EXCEPT !.correctStreak = 0,
                          !.incorrectCount = missed,
                          !.status = IF missed >= CriticalThreshold
                                     THEN "critical" ELSE stats.status]

Remember(card, isCorrect, stats) ==
    [card EXCEPT !.stats = stats,
                 !.everMastered = card.everMastered \/ stats.status = "mastered",
                 !.hist = IF card.hist # Forgotten /\ Len(card.hist) < MaxHist
                          THEN Append(card.hist, IF isCorrect THEN "c" ELSE "i")
                          ELSE Forgotten]

\* handleUpdateCard without the test of the id
handleUpdateCardAll(prev, id, isCorrect) ==
    [i \in DOMAIN prev |->
        Remember(prev[i], isCorrect, NewStats(prev[i].stats, isCorrect))]

\* handleUpdateCard: prev.map(card => card.id !== id ? card : {...card, stats: newStats})
handleUpdateCard(prev, id, isCorrect) ==
    [i \in DOMAIN prev |->
        IF prev[i].id # id THEN prev[i]
        ELSE Remember(prev[i], isCorrect, NewStats(prev[i].stats, isCorrect))]

NotMastered(c) == c.stats.status # "mastered"

\* activeCards without the filter
activeCardsUnfiltered(cards) == cards

\* cards.filter(c => c.stats.status !== 'mastered')
activeCards(cards) == SelectSeq(cards, NotMastered)

\* App: flashcards.filter(c => c.stats.status !== 'mastered').length
activeCardsCount == Len(activeCards(flashcards))

\* newCards with the batch in reverse order
newCardsReversed(drafts, t) ==
    [k \in 1..Len(drafts) |->
        [id |-> <<t, k - 1>>,
         concept |-> drafts[Len(drafts) + 1 - k].concept,
         backCode |-> drafts[Len(drafts) + 1 - k].backCode,
         stats |-> FreshStats,
         everMastered |-> FALSE,
         hist |-> << >>]]

\* handleDiagnose: result.generatedFlashcards.map((data, index) => ({...}))
newCards(drafts, t) ==
    [k \in 1..Len(drafts) |->
        [id |-> <<t, k - 1>>,
         concept |-> drafts[k].concept,
         backCode |-> drafts[k].backCode,
         stats |-> FreshStats,
         everMastered |-> FALSE,
         hist |-> << >>]]

\* JSON.stringify(flashcards) and what localStorage may hold
Missing == [kind |-> "missing"]
Corrupt == [kind |-> "corrupt"]
\* a save that leaves the mastered cards out
JSONStringifyActive(cards) == [kind |-> "json", value |-> activeCards(cards)]

JSONStringify(cards) == [kind |-> "json", value |-> cards]

UserInputs ==
    { << >>, <<" ">>, <<" ", "x", " ", "=", " ", "1", " ">>, <<"x", "=", "2">> }
Codes == { << >>, <<" ">>, <<"p">> }

IdleState == [status |-> "idle", result |-> Null, error |-> Null]

Init ==
    /\ apiKey \in BOOLEAN
    /\ now = 1
    /\ phase = "mounting"
    /\ pending = Null
    /\ store \in {Missing, Corrupt}
    /\ code = << >>
    /\ diagnosisState = IdleState
    /\ flashcards = << >>
    /\ isReviewMode = FALSE
    /\ currentIndex = 0
    /\ userInput = << >>
    /\ showResult = "null"
    /\ purgeLog = Null
    /\ updateCall = Null
    /\ visitAnswers = 0
    /\ anPc = "idle"
    /\ attempts = 0
    /\ calls = 0
    /\ sleeps = << >>
    /\ anResult = Null
    /\ firstUsable = 0

(***************************************************************************)
(* Startup: the two mount effects, then the render of the loaded cards.    *)
(***************************************************************************)
\* both effects of the first commit: the load effect queues setFlashcards(parsed),
\* the save effect writes the still empty collection
MountEffects ==
    /\ phase = "mounting"
    /\ IF store.kind = "json"
       THEN /\ pending' = Arr(store.value)
            /\ phase' = "loaded"
       ELSE /\ pending' = Null
            /\ phase' = "running"
    /\ store' = JSONStringify(flashcards)
    /\ purgeLog' = Null
    /\ updateCall' = Null
    /\ visitAnswers' = visitAnswers
    /\ UNCHANGED <<apiKey, now, code, diagnosisState, flashcards, isReviewMode,
                   currentIndex, userInput, showResult, anVars>>

\* the render after setFlashcards(parsed), and the save effect it triggers
CommitLoad ==
    /\ phase = "loaded"
    /\ flashcards' = pending.items
    /\ pending' = Null
    /\ store' = JSONStringify(flashcards')
    /\ phase' = "running"
    /\ purgeLog' = Null
    /\ updateCall' = Null
    /\ visitAnswers' = visitAnswers
    /\ UNCHANGED <<apiKey, now, code, diagnosisState, isReviewMode,
                   currentIndex, userInput, showResult, anVars>>

\* the page is reloaded: all in-memory state is lost, the store stays
Reload ==
    /\ phase = "running"
    /\ anPc \notin {"returned", "thrown"}
    /\ phase' = "mounting"
    /\ pending' = Null
    /\ code' = << >>
    /\ diagnosisState' = IdleState
    /\ flashcards' = << >>
    /\ isReviewMode' = FALSE
    /\ currentIndex' = 0
    /\ userInput' = << >>
    /\ showResult' = "null"
    /\ purgeLog' = Null
    /\ updateCall' = Null
    /\ visitAnswers' = 0
    /\ anPc' = "idle"
    /\ attempts' = 0
    /\ calls' = 0
    /\ sleeps' = << >>
    /\ anResult' = Null
    /\ firstUsable' = 0
    /\ UNCHANGED <<apiKey, now, store>>

\* the clock advances
Tick ==
    /\ now < MaxClock
    /\ now' = now + 1
    /\ purgeLog' = Null
    /\ updateCall' = Null
    /\ visitAnswers' = visitAnswers
    /\ UNCHANGED <<apiKey, appVars, anVars>>

\* no handler runs between a promise settling and its continuation
Interactive == phase = "running" /\ anPc \notin {"returned", "thrown"}

(***************************************************************************)
(* analyzeCode (services/geminiService.ts).                                *)
(***************************************************************************)
Value(v) == [kind |-> "value", value |-> v]
Error(m) == [kind |-> "error", message |-> m]

\* does the try block throw on this response
Throws(r) ==
    IF r.kind = "reject" THEN TRUE
    ELSE IF TextIsFalsy(r.text) THEN TRUE
    ELSE JSONParse(r.text) = SyntaxError

\* if (attempts >= maxAttempts) throw, with attempts already incremented
Exhausted(n) == n >= maxAttempts

\* the drafts a response would have ingested
DraftsOf(parsed) ==
    IF parsed.kind = "object" /\ parsed.generatedFlashcards.kind = "array"
    THEN parsed.generatedFlashcards.items ELSE << >>

Fits(r) ==
    IF Throws(r) THEN TRUE
    ELSE Len(flashcards) + Len(DraftsOf(JSONParse(r.text))) <= MaxCards

\* the response validation of the specification, section 4.1
Usable(r) ==
    IF r.kind # "response" THEN FALSE
    ELSE IF r.text.kind # "object" THEN FALSE
    ELSE IF r.text.rawError.kind # "string" THEN FALSE
    ELSE r.text.rawError.value # "" /\ r.text.trace.kind = "array"

\* await ai.models.generateContent(...) settles; the rest of the loop body runs
Respond(r) ==
    /\ phase = "running"
    /\ anPc = "awaiting"
    /\ Fits(r)
    /\ firstUsable' = IF firstUsable = 0 /\ Usable(r) THEN calls ELSE firstUsable
    /\ IF Throws(r)
       THEN /\ attempts' = attempts + 1
            /\ IF Exhausted(attempts')
               THEN /\ anPc' = "thrown"
                    /\ anResult' = Error(TerminalError)
                    /\ sleeps' = sleeps
               ELSE /\ anPc' = "sleeping"
                    /\ anResult' = anResult
                    /\ sleeps' = Append(sleeps, Backoff(attempts'))
       ELSE /\ anPc' = "returned"
            /\ anResult' = Value(JSONParse(r.text))
            /\ UNCHANGED <<attempts, sleeps>>
    /\ purgeLog' = Null
    /\ updateCall' = Null
    /\ visitAnswers' = visitAnswers
    /\ UNCHANGED <<apiKey, now, appVars, calls>>

\* await sleep(backoff) is over; the while condition holds, the next request is sent
Wake ==
    /\ phase = "running"
    /\ anPc = "sleeping"
    /\ attempts < maxAttempts
    /\ anPc' = "awaiting"
    /\ calls' = calls + 1
    /\ purgeLog' = Null
    /\ updateCall' = Null
    /\ visitAnswers' = visitAnswers
    /\ UNCHANGED <<apiKey, now, appVars, attempts, sleeps, anResult, firstUsable>>

(***************************************************************************)
(* App.tsx handlers.                                                       *)
(***************************************************************************)
\* the place in the collection of the card activeCards[index], 0 when there is none
ShownPos(cards, index) ==
    LET at == {i \in DOMAIN cards :
                  /\ NotMastered(cards[i])
                  /\ Cardinality({j \in 1..(i - 1) : NotMastered(cards[j])}) = index}
    IN IF at = {} THEN 0 ELSE CHOOSE i \in at : TRUE

\* the review session's effect on [currentIndex, activeCards.length]
EffectFires(cards, index) ==
    /\ isReviewMode
    /\ \/ index # currentIndex
       \/ Len(activeCards(cards)) # Len(activeCards(flashcards))

SetCode(c) ==
    /\ Interactive
    /\ diagnosisState.status # "analyzing"
    /\ c # code
    /\ code' = c
    /\ purgeLog' = Null
    /\ updateCall' = Null
    /\ visitAnswers' = visitAnswers
    /\ UNCHANGED <<apiKey, now, phase, pending, store, diagnosisState, flashcards,
                   isReviewMode, currentIndex, userInput, showResult, anVars>>

\* a scan button that stays enabled during the analysis
ScanEnabledWhileAnalyzing == trim(code) # << >>

\* the scan button is enabled; the retry button is shown
ScanEnabled == diagnosisState.status # "analyzing" /\ trim(code) # << >>
RetryShown == diagnosisState.status = "error"

\* handleDiagnose without the early return on blank code
handleDiagnoseNoTrim ==
    /\ Interactive
    /\ ScanEnabled \/ RetryShown
    /\ diagnosisState' = [status |-> "analyzing", result |-> Null, error |-> Null]
    /\ attempts' = 0
    /\ sleeps' = << >>
    /\ firstUsable' = 0
    /\ IF apiKey
       THEN /\ anPc' = "awaiting"
            /\ calls' = 1
            /\ anResult' = Null
       ELSE /\ anPc' = "thrown"
            /\ calls' = 0
            /\ anResult' = Error(MissingKeyError)
    /\ purgeLog' = Null
    /\ updateCall' = Null
    /\ visitAnswers' = visitAnswers
    /\ UNCHANGED <<apiKey, now, phase, pending, store, code, flashcards, isReviewMode,
                   currentIndex, userInput, showResult>>

\* handleDiagnose over an analyzeCode that calls the API without looking at the key
handleDiagnoseNoKeyCheck ==
    /\ Interactive
    /\ ScanEnabled \/ RetryShown
    /\ IF trim(code) = << >>
       THEN UNCHANGED <<diagnosisState, anVars>>
       ELSE /\ diagnosisState' = [status |-> "analyzing", result |-> Null, error |-> Null]
            /\ attempts' = 0
            /\ sleeps' = << >>
            /\ firstUsable' = 0
            /\ anPc' = "awaiting"
            /\ calls' = 1
            /\ anResult' = Null
    /\ purgeLog' = Null
    /\ updateCall' = Null
    /\ visitAnswers' = visitAnswers
    /\ UNCHANGED <<apiKey, now, phase, pending, store, code, flashcards, isReviewMode,
                   currentIndex, userInput, showResult>>

\* handleDiagnose up to its await: the guard, setDiagnosisState, the start of analyzeCode
handleDiagnose ==
    /\ Interactive
    /\ ScanEnabled \/ RetryShown
    /\ IF trim(code) = << >>
       THEN UNCHANGED <<diagnosisState, anVars>>
       ELSE /\ diagnosisState' = [status |-> "analyzing", result |-> Null, error |-> Null]
            /\ attempts' = 0
            /\ sleeps' = << >>
            /\ firstUsable' = 0
            /\ IF apiKey
               THEN /\ anPc' = "awaiting"
                    /\ calls' = 1
                    /\ anResult' = Null
               ELSE /\ anPc' = "thrown"
                    /\ calls' = 0
                    /\ anResult' = Error(MissingKeyError)
    /\ purgeLog' = Null
    /\ updateCall' = Null
    /\ visitAnswers' = visitAnswers
    /\ UNCHANGED <<apiKey, now, phase, pending, store, code, flashcards, isReviewMode,
                   currentIndex, userInput, showResult>>

\* handleDiagnose after its await: the result is shown and its drafts ingested, or the
\* error is shown
Settle ==
    /\ phase = "running"
    /\ anPc \in {"returned", "thrown"}
    /\ LET result == anResult.value
           added == IF anPc = "returned" /\ result.kind = "object"
                       /\ result.generatedFlashcards.kind = "array"
                       /\ Len(result.generatedFlashcards.items) > 0
                    THEN newCards(result.generatedFlashcards.items, now)
                    ELSE << >>
       IN /\ diagnosisState' =
                 IF anPc = "thrown"
                 THEN [status |-> "error", result |-> Null, error |-> Str(anResult.message)]
                 ELSE IF result.kind = "null"
                 THEN [status |-> "error", result |-> Null, error |-> Str(TypeErrorMsg)]
                 ELSE [status |-> "complete", result |-> result, error |-> Null]
          /\ flashcards' = flashcards \o added
          /\ store' = IF added = << >> THEN store ELSE JSONStringify(flashcards')
          /\ userInput' = IF EffectFires(flashcards', currentIndex) THEN << >> ELSE userInput
          /\ showResult' = IF EffectFires(flashcards', currentIndex) THEN "null" ELSE showResult
    /\ anPc' = "idle"
    /\ attempts' = 0
    /\ calls' = 0
    /\ sleeps' = << >>
    /\ anResult' = Null
    /\ firstUsable' = 0
    /\ purgeLog' = Null
    /\ updateCall' = Null
    /\ visitAnswers' = visitAnswers
    /\ UNCHANGED <<apiKey, now, phase, pending, code, isReviewMode, currentIndex>>

reset ==
    /\ Interactive
    /\ diagnosisState.status = "complete"
    /\ diagnosisState' = IdleState
    /\ purgeLog' = Null
    /\ updateCall' = Null
    /\ visitAnswers' = visitAnswers
    /\ UNCHANGED <<apiKey, now, phase, pending, store, code, flashcards, isReviewMode,
                   currentIndex, userInput, showResult, anVars>>

\* clearMasteredCards; countBefore and flashcards.length are both read from the render
\* the handler was created in
clearMasteredCards ==
    /\ Interactive
    /\ diagnosisState.status = "idle"
    /\ Len(flashcards) > 0
    /\ Len(flashcards) - activeCardsCount > 0
    /\ flashcards' = activeCards(flashcards)
    /\ purgeLog' = [kind |-> "log", from |-> Len(flashcards), to |-> Len(flashcards)]
    /\ updateCall' = Null
    /\ visitAnswers' = visitAnswers
    /\ store' = JSONStringify(flashcards')
    /\ UNCHANGED <<apiKey, now, phase, pending, code, diagnosisState, isReviewMode,
                   currentIndex, userInput, showResult, anVars>>

(***************************************************************************)
(* The review session (components/FlashcardReview.tsx).                    *)
(***************************************************************************)
OpenReview ==
    /\ Interactive
    /\ ~isReviewMode
    /\ activeCardsCount > 0
    /\ isReviewMode' = TRUE
    /\ currentIndex' = 0
    /\ userInput' = << >>
    /\ showResult' = "null"
    /\ purgeLog' = Null
    /\ updateCall' = Null
    /\ visitAnswers' = 0
    /\ UNCHANGED <<apiKey, now, phase, pending, store, code, diagnosisState, flashcards,
                   anVars>>

\* activeCards[currentIndex] is defined
HasCurrentCard == currentIndex < activeCardsCount
currentCard == activeCards(flashcards)[currentIndex + 1]

\* the session renders something that carries a close button
CloseShown == activeCardsCount = 0 \/ HasCurrentCard

onClose ==
    /\ Interactive
    /\ isReviewMode
    /\ CloseShown
    /\ isReviewMode' = FALSE
    /\ currentIndex' = 0
    /\ userInput' = << >>
    /\ showResult' = "null"
    /\ purgeLog' = Null
    /\ updateCall' = Null
    /\ visitAnswers' = 0
    /\ UNCHANGED <<apiKey, now, phase, pending, store, code, diagnosisState, flashcards,
                   anVars>>

setUserInput(text) ==
    /\ Interactive
    /\ isReviewMode
    /\ HasCurrentCard
    /\ showResult = "null"
    /\ text # userInput
    /\ userInput' = text
    /\ purgeLog' = Null
    /\ updateCall' = Null
    /\ visitAnswers' = visitAnswers
    /\ UNCHANGED <<apiKey, now, phase, pending, store, code, diagnosisState, flashcards,
                   isReviewMode, currentIndex, showResult, anVars>>

\* the verify button is enabled; Enter in the input calls handleCheck
VerifyEnabled == showResult = "null" /\ trim(userInput) # << >>
EnterChecks == showResult = "null"

\* handleUpdateCard has no throw: every call returns to its caller
Returned(id, isCorrect) ==
    [kind |-> "call", id |-> id, isCorrect |-> isCorrect, outcome |-> "returned"]

WithinCaps(id, isCorrect) ==
    \A i \in DOMAIN flashcards :
        flashcards[i].id = id =>
            IF isCorrect THEN flashcards[i].stats.correctStreak < MaxStreak
            ELSE flashcards[i].stats.incorrectCount < MaxIncorrect

handleCheck(viaEnter) ==
    /\ Interactive
    /\ isReviewMode
    /\ HasCurrentCard
    /\ IF viaEnter THEN EnterChecks ELSE VerifyEnabled
    /\ LET isCorrect == normalize(userInput) = normalize(currentCard.backCode)
       IN /\ WithinCaps(currentCard.id, isCorrect)
          /\ flashcards' = handleUpdateCard(flashcards, currentCard.id, isCorrect)
          /\ store' = JSONStringify(flashcards')
          /\ IF EffectFires(flashcards', currentIndex)
             THEN /\ showResult' = "null"
                  /\ userInput' = << >>
             ELSE /\ showResult' = IF isCorrect THEN "correct" ELSE "incorrect"
                  /\ userInput' = userInput
          /\ updateCall' = Returned(currentCard.id, isCorrect)
          /\ visitAnswers' = IF ShownPos(flashcards', currentIndex) = ShownPos(flashcards, currentIndex)
                             THEN visitAnswers + 1 ELSE 0
    /\ purgeLog' = Null
    /\ UNCHANGED <<apiKey, now, phase, pending, code, diagnosisState, isReviewMode,
                   currentIndex, anVars>>

\* the onUpdateCard prop of the open session called with any id (App.tsx: the prop is
\* handleUpdateCard itself)
onUpdateCard(id, isCorrect) ==
    /\ Interactive
    /\ isReviewMode
    /\ WithinCaps(id, isCorrect)
    /\ flashcards' = handleUpdateCard(flashcards, id, isCorrect)
    /\ store' = JSONStringify(flashcards')
    /\ IF EffectFires(flashcards', currentIndex)
       THEN /\ showResult' = "null"
            /\ userInput' = << >>
       ELSE UNCHANGED <<showResult, userInput>>
    /\ updateCall' = Returned(id, isCorrect)
    /\ visitAnswers' = IF ShownPos(flashcards', currentIndex) = ShownPos(flashcards, currentIndex)
                       THEN visitAnswers ELSE 0
    /\ purgeLog' = Null
    /\ UNCHANGED <<apiKey, now, phase, pending, code, diagnosisState, isReviewMode,
                   currentIndex, anVars>>

\* handleNext that never goes back to the first card
handleNextNoWrap ==
    /\ Interactive
    /\ isReviewMode
    /\ HasCurrentCard
    /\ showResult # "null"
    /\ currentIndex' = currentIndex + 1
    /\ showResult' = "null"
    /\ userInput' = << >>
    /\ purgeLog' = Null
    /\ updateCall' = Null
    /\ visitAnswers' = 0
    /\ UNCHANGED <<apiKey, now, phase, pending, store, code, diagnosisState, flashcards,
                   isReviewMode, anVars>>

\* what FlashcardReview renders: the completed screen, nothing, or the current card
Screen ==
    IF ~isReviewMode THEN "closed"
    ELSE IF activeCardsCount = 0 THEN "completed"
    ELSE IF ~HasCurrentCard THEN "nothing"
    ELSE "card"

handleNext ==
    /\ Interactive
    /\ isReviewMode
    /\ HasCurrentCard
    /\ showResult # "null"
    /\ currentIndex' = IF currentIndex < activeCardsCount - 1 THEN currentIndex + 1 ELSE 0
    /\ showResult' = "null"
    /\ userInput' = << >>
    /\ purgeLog' = Null
    /\ updateCall' = Null
    /\ visitAnswers' = 0
    /\ UNCHANGED <<apiKey, now, phase, pending, store, code, diagnosisState, flashcards,
                   isReviewMode, anVars>>

Next ==
    \/ MountEffects
    \/ CommitLoad
    \/ Reload
    \/ Tick
    \/ \E c \in Codes : SetCode(c)
    \/ handleDiagnose
    \/ \E r \in Responses : Respond(r)
    \/ Wake
    \/ Settle
    \/ reset
    \/ clearMasteredCards
    \/ OpenReview
    \/ onClose
    \/ \E text \in UserInputs : setUserInput(text)
    \/ \E viaEnter \in BOOLEAN : handleCheck(viaEnter)
    \/ handleNext

Spec == Init /\ [][Next]_vars

(***************************************************************************)
(* The request pipeline on its own: every answer of the collaborator, no   *)
(* review session.                                                         *)
(***************************************************************************)
NextPipeline ==
    \/ MountEffects
    \/ \E c \in Codes : SetCode(c)
    \/ handleDiagnose
    \/ \E r \in Responses : Respond(r)
    \/ Wake
    \/ Settle
    \/ reset

SpecPipeline == Init /\ [][NextPipeline]_vars

\* a DiagnosisResult: a non-empty rawError string and a trace sequence
ValidShape(parsed) ==
    IF parsed.kind # "object" THEN FALSE
    ELSE IF parsed.rawError.kind # "string" THEN FALSE
    ELSE parsed.rawError.value # "" /\ parsed.trace.kind = "array"

\* C1: analyzeCode returns at the first usable response, after exactly that many
\* calls; it throws the terminal error after exactly 5 calls when no response was
\* usable; it never makes a 6th call and throws nothing else while the credential
\* is present.
C1_CallsUntilFirstUsable ==
    /\ calls <= maxAttempts
    /\ anPc = "returned" => firstUsable = calls /\ anResult.kind = "value"
    /\ firstUsable # 0 => anPc = "returned"
    /\ (anPc = "thrown" /\ apiKey) =>
           /\ calls = maxAttempts
           /\ firstUsable = 0
           /\ anResult = Error(TerminalError)

\* C2: what analyzeCode returns has a non-empty rawError string and a trace sequence.
C2_ReturnsOnlyValidShape ==
    anPc = "returned" => ValidShape(anResult.value)

ExpectedDelays == <<1000, 2000, 4000, 8000>>

\* C3: the n-th delay slept is 1000 * 2^(n-1) ms, one delay follows each of the
\* failed attempts 1..4, and none follows the 5th failure or a success.
C3_BackoffSchedule ==
    /\ Len(sleeps) <= Len(ExpectedDelays)
    /\ \A n \in 1..Len(sleeps) : sleeps[n] = ExpectedDelays[n]
    /\ anPc = "sleeping" => Len(sleeps) = calls /\ attempts = calls
    /\ anPc = "awaiting" => Len(sleeps) = calls - 1 /\ attempts = calls - 1
    /\ (anPc = "returned" \/ (anPc = "thrown" /\ apiKey)) => Len(sleeps) = calls - 1
    /\ (anPc = "thrown" /\ ~apiKey) => sleeps = << >>

C3_Witness ==
    /\ anPc = "thrown"
    /\ calls = maxAttempts
    /\ Len(sleeps) = Len(ExpectedDelays)

(***************************************************************************)
(* The flashcard engine and the review session: the collaborator answers   *)
(* every request with a usable diagnosis, the user types one of the two    *)
(* reference answers or nothing.                                           *)
(***************************************************************************)
GoodResponses == {[kind |-> "response", text |-> t] : t \in ValidTexts}
Answer1 == <<" ", "x", " ", "=", " ", "1", " ">>
Answer2 == <<"x", "=", "2">>

NextEngine ==
    \/ MountEffects
    \/ CommitLoad
    \/ Reload
    \/ Tick
    \/ SetCode(<<"p">>)
    \/ handleDiagnose
    \/ \E r \in GoodResponses : Respond(r)
    \/ Settle
    \/ reset
    \/ clearMasteredCards
    \/ OpenReview
    \/ onClose
    \/ \E text \in {Answer1, Answer2} : setUserInput(text)
    \/ \E viaEnter \in BOOLEAN : handleCheck(viaEnter)
    \/ handleNext

SpecEngine == Init /\ [][NextEngine]_vars

\* a step that records an answer: the collection keeps its length and changes
AnswerStep ==
    /\ phase = "running" /\ phase' = "running"
    /\ Len(flashcards') = Len(flashcards)
    /\ flashcards' # flashcards

\* the transition of section 4.2, written out
AfterCorrect(st) ==
    [correctStreak |-> st.correctStreak + 1,
     incorrectCount |-> st.incorrectCount,
     status |-> IF st.correctStreak + 1 >= 3 THEN "mastered" ELSE "learning"]
AfterIncorrect(st) ==
    [correctStreak |-> 0,
     incorrectCount |-> st.incorrectCount + 1,
     status |-> IF st.incorrectCount + 1 >= 3 THEN "critical" ELSE st.status]

\* C4: an answer on the current card changes the stats of the card with that id to
\* streak + 1 and mastered/learning when correct, and to streak 0, one more miss
\* and critical/unchanged status when incorrect.
C4_AnswerTransition ==
    [][AnswerStep =>
         LET isCorrect == normalize(userInput) = normalize(currentCard.backCode)
         IN \A i \in DOMAIN flashcards :
               flashcards[i].id = currentCard.id =>
                   flashcards'[i].stats = IF isCorrect
                                          THEN AfterCorrect(flashcards[i].stats)
                                          ELSE AfterIncorrect(flashcards[i].stats)]_vars

\* a learning card that missed once is still learning
C4_Witness ==
    \E i \in DOMAIN flashcards :
        /\ flashcards[i].hist = <<"c", "i">>
        /\ flashcards[i].stats = [correctStreak |-> 0, incorrectCount |-> 1,
                                  status |-> "learning"]

\* C5: three correct answers on a fresh card give streak 3 and mastered; correct then
\* incorrect gives streak 0 and not mastered; a streak of 3 or more goes with
\* mastered; the streak is 0 right after an incorrect answer.
C5_StreakState ==
    \A i \in DOMAIN flashcards :
        LET card == flashcards[i] IN
        /\ card.hist = <<"c", "c", "c">> =>
               card.stats.correctStreak = 3 /\ card.stats.status = "mastered"
        /\ card.hist = <<"c", "i">> =>
               card.stats.correctStreak = 0 /\ card.stats.status # "mastered"
        /\ card.stats.correctStreak >= 3 => card.stats.status = "mastered"

C5_StreakReset ==
    AnswerStep =>
        \A i \in DOMAIN flashcards :
            flashcards'[i].stats.incorrectCount > flashcards[i].stats.incorrectCount
                => flashcards'[i].stats.correctStreak = 0

C5_Streak == [](C5_StreakState) /\ [][C5_StreakReset]_vars

C5_Witness ==
    \E i \in DOMAIN flashcards :
        /\ flashcards[i].hist = <<"c", "c", "c">>
        /\ flashcards[i].stats.status = "mastered"

\* C6 as stated: three or more misses on a card that was never mastered mean critical.
C6_CriticalWhileThreeMisses ==
    \A i \in DOMAIN flashcards :
        (flashcards[i].stats.incorrectCount >= 3 /\ ~flashcards[i].everMastered)
            => flashcards[i].stats.status = "critical"

\* C6: three or more misses on a card that was never mastered mean critical as long
\* as no correct answer followed the last miss.
C6_CriticalAfterMiss ==
    \A i \in DOMAIN flashcards :
        (/\ flashcards[i].stats.incorrectCount >= 3
         /\ flashcards[i].stats.correctStreak = 0
         /\ ~flashcards[i].everMastered)
            => flashcards[i].stats.status = "critical"

\* a correct answer, then three misses
C6_Witness ==
    \E i \in DOMAIN flashcards :
        /\ flashcards[i].hist = <<"c", "i", "i", "i">>
        /\ flashcards[i].stats.status = "critical"

\* C7: an answer never takes a mastered card out of mastered.
C7_MasteryIsSticky ==
    [][AnswerStep =>
         \A i \in DOMAIN flashcards :
             flashcards[i].stats.status = "mastered"
                 => flashcards'[i].stats.status = "mastered"]_vars

\* the positions of the cards that are not mastered, and the k-th of them
ActivePositions == {i \in DOMAIN flashcards : flashcards[i].stats.status # "mastered"}
KthActive(k) ==
    CHOOSE i \in ActivePositions : Cardinality({j \in ActivePositions : j < i}) = k - 1

\* C8: the active set of the session and of the badge is the cards that are not
\* mastered, in collection order, and the card the session shows is one of them.
C8_ActiveSet ==
    /\ activeCardsCount = Cardinality(ActivePositions)
    /\ Len(activeCards(flashcards)) = Cardinality(ActivePositions)
    /\ \A k \in 1..Cardinality(ActivePositions) :
           activeCards(flashcards)[k] = flashcards[KthActive(k)]
    /\ (isReviewMode /\ HasCurrentCard) => currentCard.stats.status # "mastered"

\* the session is open on a collection whose first card is mastered
C8_Witness ==
    /\ isReviewMode
    /\ Len(flashcards) = 2
    /\ flashcards[1].stats.status = "mastered"
    /\ HasCurrentCard
    /\ currentCard = flashcards[2]

\* C9: a purge removes the mastered cards and only them, keeps the others in order,
\* and reports how many it removed; purging the result again removes nothing.
C9_Purge ==
    [][purgeLog'.kind = "log" =>
         /\ Len(flashcards') = Cardinality(ActivePositions)
         /\ \A k \in 1..Len(flashcards') : flashcards'[k] = flashcards[KthActive(k)]
         /\ activeCards(flashcards') = flashcards'
         /\ purgeLog'.from - purgeLog'.to = Len(flashcards) - Len(flashcards')]_vars

\* C10: the ids of the collection are pairwise distinct.
C10_DistinctIds ==
    \A i, j \in DOMAIN flashcards : i # j => flashcards[i].id # flashcards[j].id

(***************************************************************************)
(* Ingestion: diagnoses that fail, that carry no drafts and that carry     *)
(* drafts, while a review session records answers.                         *)
(***************************************************************************)
IngestResponses ==
    {[kind |-> "reject"], [kind |-> "response", text |-> NullText]} \cup GoodResponses

NextIngest ==
    \/ MountEffects
    \/ SetCode(<<"p">>)
    \/ handleDiagnose
    \/ \E r \in IngestResponses : Respond(r)
    \/ Wake
    \/ Settle
    \/ reset
    \/ OpenReview
    \/ onClose
    \/ setUserInput(Answer1)
    \/ \E viaEnter \in BOOLEAN : handleCheck(viaEnter)
    \/ handleNext

SpecIngest == Init /\ [][NextIngest]_vars

\* the continuation of handleDiagnose runs in this step
SettleStep == phase = "running" /\ anPc \in {"returned", "thrown"} /\ anPc' = "idle"

\* the drafts of the diagnosis analyzeCode settled with, none if it threw
SettledDrafts ==
    IF anPc # "returned" THEN << >>
    ELSE IF anResult.value.kind # "object" THEN << >>
    ELSE IF anResult.value.generatedFlashcards.kind # "array" THEN << >>
    ELSE anResult.value.generatedFlashcards.items

\* C11: the n drafts of a settled diagnosis become n fresh cards at the end of the
\* collection, in draft order; the cards already there keep content and position;
\* a diagnosis without drafts or a failed one leaves the collection as it is.
C11_IngestAppends ==
    [][SettleStep =>
         /\ Len(flashcards') = Len(flashcards) + Len(SettledDrafts)
         /\ \A i \in DOMAIN flashcards : flashcards'[i] = flashcards[i]
         /\ \A k \in 1..Len(SettledDrafts) :
                LET card == flashcards'[Len(flashcards) + k] IN
                /\ card.concept = SettledDrafts[k].concept
                /\ card.backCode = SettledDrafts[k].backCode
                /\ card.stats = [correctStreak |-> 0, incorrectCount |-> 0,
                                 status |-> "new"]]_vars

\* a diagnosis settled on a collection whose card had been answered in the session
C11_Witness ==
    /\ diagnosisState.status = "complete"
    /\ isReviewMode
    /\ Len(flashcards) = 2
    /\ flashcards[1].concept = flashcards[2].concept
    /\ flashcards[1].stats # FreshStats
    /\ flashcards[2].stats = FreshStats

(***************************************************************************)
(* The answer check: one diagnosis brings both reference cards, the user   *)
(* types answers that differ from the references in whitespace, in case or *)
(* in content.                                                             *)
(***************************************************************************)
AnswerInputs ==
    { << >>,
      <<" ">>,
      Answer1,
      Answer2,
      <<"x", " ", "=", " ", "1">>,
      <<"x", "\t", "=", "\n", "1">>,
      <<"X", "=", "1">>,
      <<"x", " ", "=", " ", "2">> }

BothDrafts == [kind |-> "response", text |-> ObjectText(Str("E"), Arr(<< >>), Arr(<<Draft1, Draft2>>))]

NextAnswer ==
    \/ MountEffects
    \/ SetCode(<<"p">>)
    \/ handleDiagnose
    \/ Respond(BothDrafts)
    \/ Settle
    \/ OpenReview
    \/ onClose
    \/ \E text \in AnswerInputs : setUserInput(text)
    \/ \E viaEnter \in BOOLEAN : handleCheck(viaEnter)
    \/ handleNext

SpecAnswer == Init /\ [][NextAnswer]_vars

NonBlank(ch) == ch \notin {" ", "\t", "\n"}
Squeezed(s) == SelectSeq(s, NonBlank)

C12_Examples ==
    /\ normalize(<<" ", "x", " ", "=", " ", "1", " ">>) = normalize(<<"x", "=", "1">>)
    /\ normalize(<<"x", " ", "=", " ", "1">>) # normalize(<<"x", " ", "=", " ", "2">>)

\* the card on screen takes the correct branch of the transition in this step
C12_JudgedCorrect ==
    LET p == KthActive(currentIndex + 1) IN
    flashcards'[p].stats.correctStreak = flashcards[p].stats.correctStreak + 1

\* C12: an answer is judged correct exactly when it equals the card's backCode once
\* every whitespace character is removed from both, letter case kept;
\* " x = 1 " matches "x=1" and "x = 1" does not match "x = 2".
C12_AnswerCheck ==
    /\ [](C12_Examples)
    /\ [][(AnswerStep /\ isReviewMode /\ HasCurrentCard) =>
             (C12_JudgedCorrect <=> Squeezed(userInput) = Squeezed(currentCard.backCode))]_vars

\* the padded answer was judged correct against "x=1"
C12_Witness ==
    /\ isReviewMode
    /\ HasCurrentCard
    /\ showResult = "correct"
    /\ userInput = <<" ", "x", " ", "=", " ", "1", " ">>
    /\ currentCard.backCode = <<"x", "=", "1">>

(***************************************************************************)
(* Submissions.                                                            *)
(***************************************************************************)

\* C13: while the code is blank after trimming no request is running, and no step
\* taken from such a state starts one or moves the diagnosis state anywhere but
\* back to idle by a reset; a blank submission, by scan or by retry, changes nothing.
C13_BlankSubmission ==
    /\ [](trim(code) = << >> => anPc = "idle" /\ diagnosisState.status # "analyzing")
    /\ [][trim(code) = << >> =>
             /\ anVars' = anVars
             /\ (diagnosisState' = diagnosisState
                 \/ (diagnosisState.status = "complete" /\ diagnosisState' = IdleState))]_vars

\* the retry button is on screen over code that holds a blank only
C13_Witness ==
    /\ RetryShown
    /\ code = <<" ">>
    /\ calls = 0

\* C14: a request is in flight only while the state is analyzing, and no step restarts
\* it: until it settles its call count, its failure count and its delays only grow.
C14_SingleRequest ==
    /\ [](anPc # "idle" => diagnosisState.status = "analyzing")
    /\ [][(anPc \in {"awaiting", "sleeping"}) =>
             (/\ anPc' # "idle"
              /\ calls' >= calls
              /\ attempts' >= attempts
              /\ Len(sleeps') >= Len(sleeps)
              /\ diagnosisState' = diagnosisState)]_vars

\* a request waits between two attempts over code that could be submitted
C14_Witness ==
    /\ anPc = "sleeping"
    /\ attempts = 2
    /\ trim(code) # << >>

\* C19: without the credential no call and no sleep is ever made, the one error
\* analyzeCode throws is the missing-credential error, and the diagnosis state
\* goes from analyzing to error with that message.
C19_MissingCredential ==
    /\ [](~apiKey =>
            /\ calls = 0
            /\ attempts = 0
            /\ sleeps = << >>
            /\ anPc \in {"idle", "thrown"}
            /\ anPc = "thrown" =>
                   anResult = [kind |-> "error",
                               message |-> "API Key is missing in environment variables."]
            /\ diagnosisState.status \in {"idle", "analyzing", "error"}
            /\ diagnosisState.status = "analyzing" => anPc = "thrown"
            /\ diagnosisState.status = "error" =>
                   diagnosisState.error = Str("API Key is missing in environment variables."))
    /\ [][(~apiKey /\ diagnosisState.status = "analyzing" /\ diagnosisState' # diagnosisState)
             => diagnosisState'.status = "error"]_vars

C19_Witness ==
    /\ ~apiKey
    /\ anPc = "idle"
    /\ diagnosisState.status = "error"
    /\ diagnosisState.error = Str(MissingKeyError)

(***************************************************************************)
(* The pointer of the review session.                                      *)
(***************************************************************************)

\* C16: while the session is open over a non-empty active set, currentIndex points
\* at one of its cards, so the session shows a card.
C16_PointerInRange ==
    (isReviewMode /\ activeCardsCount > 0) =>
        (0 <= currentIndex /\ currentIndex < activeCardsCount)

\* the user leaves the feedback of an answer for the next card in this step
NextStep ==
    /\ phase = "running" /\ phase' = "running"
    /\ isReviewMode /\ isReviewMode'
    /\ showResult # "null" /\ showResult' = "null"
    /\ flashcards' = flashcards

C18_StoreMirrors ==
    /\ [](phase = "running" => (store.kind = "json" /\ store.value = flashcards))
    /\ [][(phase = "mounting" /\ phase' # "mounting" /\ store.kind # "json") =>
             (phase' = "running" /\ flashcards' = << >>)]_vars

\* the store mirrors a collection that holds an answered card and a mastered one
C18_Witness ==
    /\ phase = "running"
    /\ Len(flashcards) = 2
    /\ flashcards[1].stats.status = "mastered"
    /\ flashcards[2].stats.incorrectCount > 0
    /\ store.kind = "json"
    /\ store.value = flashcards

(***************************************************************************)
(* What an answer leaves alone.                                            *)
(***************************************************************************)

\* C20: an answer changes nothing but the stats of the card whose id is the answered
\* one: the cards with another id, the order, and the id, concept and backCode of
\* every card stay; every other step of the running application keeps each card
\* as it was, drops it, or adds new cards behind the others.
C20_OnlyTheAnsweredCard ==
    [][IF AnswerStep /\ isReviewMode /\ HasCurrentCard
       THEN \A i \in DOMAIN flashcards :
            /\ flashcards[i].id # currentCard.id => flashcards'[i] = flashcards[i]
            /\ flashcards'[i].id = flashcards[i].id
            /\ flashcards'[i].concept = flashcards[i].concept
            /\ flashcards'[i].backCode = flashcards[i].backCode
       ELSE (phase = "running" /\ phase' = "running") =>
                \A j \in DOMAIN flashcards' :
                    \/ j > Len(flashcards)
                    \/ \E i \in DOMAIN flashcards : flashcards[i] = flashcards'[j]]_vars

\* the first of two cards with different ids was just answered, the second one is as
\* it was ingested
C20_Witness ==
    /\ isReviewMode
    /\ showResult = "incorrect"
    /\ Len(flashcards) = 2
    /\ flashcards[1].id # flashcards[2].id
    /\ flashcards[1].stats.incorrectCount = 1
    /\ flashcards[2].stats = FreshStats
    /\ flashcards[2].hist = << >>

(***************************************************************************)
(* The contract of handleUpdateCard: the prop is called with the ids of    *)
(* the two reference cards and with an id no card carries.                 *)
(***************************************************************************)
ProbeIds == { <<1, 0>>, <<1, 1>>, <<7, 7>> }

NextContract ==
    \/ MountEffects
    \/ SetCode(<<"p">>)
    \/ handleDiagnose
    \/ Respond(BothDrafts)
    \/ Settle
    \/ OpenReview
    \/ onClose
    \/ \E id \in ProbeIds, isCorrect \in BOOLEAN : onUpdateCard(id, isCorrect)

SpecContract == Init /\ [][NextContract]_vars

\* C15: a handleUpdateCard call with an id that no card of the collection carries
\* ends with a NotFound error and leaves the collection as it was.
C15_NotFound ==
    [][(/\ updateCall'.kind = "call"
        /\ \A i \in DOMAIN flashcards : flashcards[i].id # updateCall'.id) =>
           (updateCall'.outcome = "NotFound" /\ flashcards' = flashcards)]_vars

(***************************************************************************)
(* Answers per visit.                                                      *)
(***************************************************************************)

\* C21: between two advances of the session at most one answer is recorded for the
\* card on screen, also when a diagnosis settles and ingests cards in between.
C21_OneAnswerPerVisit ==
    visitAnswers <= 1

\* C22: an answer is recorded only for a draft that is not blank: whenever the
\* session calls handleUpdateCard, the input holds more than whitespace.
C22_NoBlankAnswer ==
    [][(isReviewMode /\ updateCall'.kind = "call") => trim(userInput) # << >>]_vars

(***************************************************************************)
(* Startup over a stored collection.                                       *)
(***************************************************************************)

\* C23: a startup that finds a non-empty stored collection never writes the store
\* before the collection is loaded, and ends with the store and the in-memory
\* collection equal to what was stored.
C23_StartupKeepsCards ==
    /\ [][(phase = "mounting" /\ store.kind = "json" /\ store.value # << >>) =>
             store' = store]_vars
    /\ [][(phase = "loaded" /\ phase' = "running" /\ pending.items # << >>) =>
             (/\ flashcards' = pending.items
              /\ store'.kind = "json"
              /\ store'.value = pending.items)]_vars

====
